---- MODULE Spec2Model ----
(***************************************************************************)
(* Model of app.py: the PDF translation service.  The ledger (the three    *)
(* SQL tables), the uploads/ directory and the in-flight request handlers  *)
(* are the state.  The handlers are asyncio coroutines on one event loop:  *)
(* a handler runs atomically from one await to the next, so every action   *)
(* below is the code between two consecutive awaits of one handler.        *)
(* uuid4 identifiers are taken to be fresh; created_at is a logical clock   *)
(* that ticks once per stored conversation; the created_at and uploaded_at *)
(* columns of Message and FileRecord, which no code reads, are left out.   *)
(***************************************************************************)
EXTENDS Integers, Sequences, FiniteSets, TLC

\* ---------------------------------------------------------------- bounds
NumProcs == 2
MaxRequests == 3
MaxChunks == 2

Procs == 1 .. NumProcs
ConvIds == 1 .. MaxRequests

\* ------------------------------------------------------------- text helpers
\* Texts that the code inspects character by character (file names, PDF
\* lines, titles) are sequences of one-character strings.
Max(a, b) == IF a >= b THEN a ELSE b

\* str.lower() on one character
LowerChar(c) ==
  CASE c = "A" -> "a"
    [] c = "B" -> "b"
    [] c = "C" -> "c"
    [] c = "D" -> "d"
    [] c = "E" -> "e"
    [] c = "F" -> "f"
    [] c = "G" -> "g"
    [] c = "H" -> "h"
    [] c = "I" -> "i"
    [] c = "J" -> "j"
    [] c = "K" -> "k"
    [] c = "L" -> "l"
    [] c = "M" -> "m"
    [] c = "N" -> "n"
    [] c = "O" -> "o"
    [] c = "P" -> "p"
    [] c = "Q" -> "q"
    [] c = "R" -> "r"
    [] c = "S" -> "s"
    [] c = "T" -> "t"
    [] c = "U" -> "u"
    [] c = "V" -> "v"
    [] c = "W" -> "w"
    [] c = "X" -> "x"
    [] c = "Y" -> "y"
    [] c = "Z" -> "z"
    [] OTHER -> c

Lower(s) == [i \in 1 .. Len(s) |-> LowerChar(s[i])]

StartsWith(s, pre) == Len(s) >= Len(pre) /\ SubSeq(s, 1, Len(pre)) = pre

EndsWith(s, suf) ==
  Len(s) >= Len(suf) /\ SubSeq(s, Len(s) - Len(suf) + 1, Len(s)) = suf

Contains(s, sub) ==
  \E i \in 1 .. (Len(s) - Len(sub) + 1) : SubSeq(s, i, i + Len(sub) - 1) = sub

\* str.strip() removes blanks, tabs and newlines
IsSpace(c) == c \in {" ", "\t", "\n"}

RECURSIVE LStrip(_)
LStrip(s) == IF s # <<>> /\ IsSpace(Head(s)) THEN LStrip(Tail(s)) ELSE s

RECURSIVE RStrip(_)
RStrip(s) ==
  IF s # <<>> /\ IsSpace(s[Len(s)]) THEN RStrip(SubSeq(s, 1, Len(s) - 1)) ELSE s

Strip(s) == LStrip(RStrip(s))

Digits == {"0", "1", "2", "3", "4", "5", "6", "7", "8", "9"}

\* re.search(r"\d{4}", text)
HasFourDigits(s) ==
  \E i \in 1 .. (Len(s) - 3) : \A j \in i .. (i + 3) : s[j] \in Digits

\* re.search(r"\[.*?\]", text): "." matches every character but a newline
HasBracketTag(s) ==
  \E i \in 1 .. Len(s) : \E j \in (i + 1) .. Len(s) :
    /\ s[i] = "["
    /\ s[j] = "]"
    /\ \A k \in (i + 1) .. (j - 1) : s[k] # "\n"

\* ------------------------------------------------------------ title extractor
ARXIV == <<"a", "r", "x", "i", "v">>

\* faulty variant: every text with four digits in a row is rejected
is_valid_title_anyYear(text0) ==
  LET text == Strip(text0) IN
    IF Len(text) < 10 THEN FALSE
    ELSE IF StartsWith(Lower(text), <<"a", "r", "x", "i", "v">>) THEN FALSE
    ELSE IF HasFourDigits(text) THEN FALSE
    ELSE IF HasBracketTag(text) THEN FALSE
    ELSE IF Contains(text, <<"@">>) THEN FALSE
    ELSE TRUE

is_valid_title(text0) ==
  LET text == Strip(text0) IN
    IF Len(text) < 10 THEN FALSE
    ELSE IF StartsWith(Lower(text), ARXIV) THEN FALSE
    ELSE IF HasFourDigits(text) /\ Contains(Lower(text), ARXIV) THEN FALSE
    ELSE IF HasBracketTag(text) THEN FALSE
    ELSE IF Contains(text, <<"@">>) THEN FALSE
    ELSE TRUE

\* Optional[str]: None, or Some(text)
None == [none |-> TRUE]

Some(text) == [value |-> text]

\* the loop over line["spans"]: [line_text, max_font_size] after the spans
RECURSIVE SpanLoop(_, _, _)
SpanLoop(spans, line_text, max_font_size) ==
  IF spans = <<>> THEN [text |-> line_text, size |-> max_font_size]
  ELSE LET text == Strip(Head(spans).text) IN
    IF text = <<>> THEN SpanLoop(Tail(spans), line_text, max_font_size)
    ELSE SpanLoop(Tail(spans), line_text \o text \o <<" ">>,
                  Max(max_font_size, Head(spans).size))

\* the loop over block["lines"], appending to candidates
RECURSIVE LineLoop(_, _)
LineLoop(lines, candidates) ==
  IF lines = <<>> THEN candidates
  ELSE LET r == SpanLoop(Head(lines).spans, <<>>, 0)
           line_text == Strip(r.text)
       IN LineLoop(Tail(lines),
                   IF is_valid_title(line_text)
                   THEN Append(candidates, <<r.size, line_text>>)
                   ELSE candidates)

\* the loop over blocks; a block without "lines" (an image) is skipped
RECURSIVE BlockLoop(_, _)
BlockLoop(blocks, candidates) ==
  IF blocks = <<>> THEN candidates
  ELSE IF "lines" \notin DOMAIN Head(blocks)
       THEN BlockLoop(Tail(blocks), candidates)
       ELSE BlockLoop(Tail(blocks), LineLoop(Head(blocks).lines, candidates))

\* faulty variant: the last of the candidates of the largest size is taken
SortedFirst_lastOfTies(candidates) ==
  LET best == CHOOSE i \in 1 .. Len(candidates) :
                /\ \A j \in 1 .. Len(candidates) : candidates[j][1] <= candidates[i][1]
                /\ \A j \in (i + 1) .. Len(candidates) : candidates[j][1] < candidates[i][1]
  IN candidates[best]

\* candidates.sort(reverse=True, key=size)[0]: the sort is stable, so the first
\* element is the earliest candidate among those of the largest size
SortedFirst(candidates) ==
  LET best == CHOOSE i \in 1 .. Len(candidates) :
                /\ \A j \in 1 .. Len(candidates) : candidates[j][1] <= candidates[i][1]
                /\ \A j \in 1 .. (i - 1) : candidates[j][1] < candidates[i][1]
  IN candidates[best]

\* A stored file is [size, pages |-> <<page>>], a page a sequence of blocks; a
\* file fitz cannot open has no "pages".  Every exception ends in "return None".
extract_pdf_title(file) ==
  IF "pages" \notin DOMAIN file THEN None
  ELSE IF file.pages = <<>> THEN None
  ELSE LET candidates == BlockLoop(file.pages[1], <<>>) IN
    IF candidates = <<>> THEN None
    ELSE Some(Strip(SortedFirst(candidates)[2]))

\* ------------------------------------------------------------ request inputs
ApiKeys == {"", "key"}

EmptyFile == [size |-> 0]

\* bytes that are no PDF: fitz.open raises
GarbageFile == [size |-> 1]

\* a first page with an image block, an arXiv header in the largest font and
\* a title line made of two spans
PaperFile ==
  [size |-> 1,
   pages |-> <<
     << [image |-> 1],
        [lines |-> <<
           [spans |-> << [text |-> <<"a", "r", "X", "i", "v", ":", "2", "3", "0", "1", ".", "0", "7">>,
                          size |-> 20] >>],
           [spans |-> << [text |-> <<"D", "e", "e", "p", " ">>, size |-> 14],
                         [text |-> <<" ">>, size |-> 30],
                         [text |-> <<"L", "e", "a", "r", "n", "i", "n", "g">>, size |-> 18] >>]
        >>]
     >> >>]

A_PDF == <<"a", ".", "p", "d", "f">>

B_PDF_UPPER == <<"B", ".", "P", "D", "F">>

A_TXT == <<"a", ".", "t", "x", "t">>

NO_DOT_PDF == <<"p", "d", "f">>

\* the forms of POST /upload that are tried
UploadForms ==
  { [api_key |-> "key", filename |-> A_PDF, file |-> PaperFile],
    [api_key |-> "key", filename |-> B_PDF_UPPER, file |-> GarbageFile],
    [api_key |-> "", filename |-> A_PDF, file |-> PaperFile],
    [api_key |-> "key", filename |-> A_PDF, file |-> EmptyFile],
    [api_key |-> "key", filename |-> A_TXT, file |-> PaperFile],
    [api_key |-> "key", filename |-> NO_DOT_PDF, file |-> GarbageFile] }

\* partial.text of the i-th fragment of a stream: the fragments differ, so
\* that their order shows in the accumulated text
Fragment(i) == IF i = 1 THEN "a" ELSE IF i = 2 THEN "b" ELSE "c"

initial_prompt == "翻译这篇论文"

CONTINUE == "继续"

\* ------------------------------------------------------------------- state
VARIABLES
  conversations,  \* table Conversation: set of rows
  messages,       \* table Message: sequence of rows in insertion order
  file_records,   \* table FileRecord: set of rows
  disk,           \* uploads/: save_path -> file content
  req,            \* the handler running in each slot, with its local variables
  resp,           \* the response sent in the last step (NoResp if none), with
                  \* the request it answers
  uuids,          \* number of uploads that drew their uuid4 identifiers
  started,        \* number of requests received
  uploads,        \* conversation id -> number of fp.upload_file calls made for it
  sent,           \* bot message id -> the message list sent to the bot to obtain it
  continued,      \* conversation id -> number of continue requests that succeeded
  overlapped,     \* conversation ids on which two continue requests ran at once
  unit            \* a direct call of one of the two title functions: the
                  \* function, its argument and, once it returned, its result

vars ==
  << conversations, messages, file_records, disk, req, resp, uuids, started,
     uploads, sent, continued, overlapped, unit >>

tables == << conversations, messages, file_records >>

NoAttachment == [url |-> <<>>, content_type |-> "", name |-> <<>>]

Idle ==
  [kind |-> "none", pc |-> "idle", api_key |-> "", filename |-> <<>>,
   file |-> EmptyFile, conversation_id |-> 0, file_id |-> <<>>,
   save_path |-> <<>>, pdf_attachment |-> NoAttachment, poe_messages |-> <<>>,
   response_text |-> "", chunks |-> 0]

NoResp ==
  [kind |-> "none", status |-> 0, detail |-> "", api_key |-> "",
   filename |-> <<>>, file |-> EmptyFile, conversation_id |-> 0,
   reply |-> "", title |-> <<>>, messages |-> <<>>, listing |-> <<>>]

\* no direct call of a title function
NoCall == [fn |-> "none", done |-> FALSE]

Init ==
  /\ conversations = {}
  /\ messages = <<>>
  /\ file_records = {}
  /\ disk = [f \in {} |-> EmptyFile]
  /\ req = [p \in Procs |-> Idle]
  /\ resp = NoResp
  /\ uuids = 0
  /\ started = 0
  /\ uploads = [c \in ConvIds |-> 0]
  /\ sent = <<>>
  /\ continued = [c \in ConvIds |-> 0]
  /\ overlapped = {}
  /\ unit = NoCall

\* ------------------------------------------------------------ ledger queries
\* session.get(Conversation, conversation_id): the rows with that primary key
ConversationRows(conversation_id) ==
  {c \in conversations : c.id = conversation_id}

\* select(FileRecord).where(conversation_id == ...): all matching rows
FileRecordRows(conversation_id) ==
  {f \in file_records : f.conversation_id = conversation_id}

RECURSIVE SelectSeq2(_, _)
SelectSeq2(s, conversation_id) ==
  IF s = <<>> THEN <<>>
  ELSE IF Head(s).conversation_id = conversation_id
       THEN <<Head(s)>> \o SelectSeq2(Tail(s), conversation_id)
       ELSE SelectSeq2(Tail(s), conversation_id)

\* insertion sort by Message.id
RECURSIVE InsertById(_, _)
InsertById(m, s) ==
  IF s = <<>> THEN <<m>>
  ELSE IF m.id < Head(s).id THEN <<m>> \o s
       ELSE <<Head(s)>> \o InsertById(m, Tail(s))

RECURSIVE OrderById(_)
OrderById(s) == IF s = <<>> THEN <<>> ELSE InsertById(Head(s), OrderById(Tail(s)))

\* faulty variant: the where clause is missing
MessagesOf_allConversations(conversation_id) == OrderById(messages)

\* select(Message).where(conversation_id == ...).order_by(Message.id)
MessagesOf(conversation_id) == OrderById(SelectSeq2(messages, conversation_id))

RECURSIVE MaxId(_)
MaxId(s) == IF s = <<>> THEN 0 ELSE Max(Head(s).id, MaxId(Tail(s)))

\* faulty variant: the largest id in use is handed out again
NextMessageId_reuse == MaxId(messages)

\* the id an INTEGER PRIMARY KEY column gives the next inserted row
NextMessageId == MaxId(messages) + 1

\* faulty variant: the reply row is inserted before the user row
AddTurn_replyFirst(conversation_id, user_content, bot_content) ==
  messages \o
    << [id |-> Len(messages) + 1, conversation_id |-> conversation_id,
        role |-> "bot", content |-> bot_content],
       [id |-> Len(messages) + 2, conversation_id |-> conversation_id,
        role |-> "user", content |-> user_content] >>

\* faulty variant: the user row of the turn is never added
AddTurn_botOnly(conversation_id, user_content, bot_content) ==
  messages \o
    << [id |-> Len(messages) + 1, conversation_id |-> conversation_id,
        role |-> "bot", content |-> bot_content] >>

\* session.add(Message(...)) twice, then commit: the rows are inserted in the
\* order they were added
AddTurn(conversation_id, user_content, bot_content) ==
  messages \o
    << [id |-> NextMessageId, conversation_id |-> conversation_id,
        role |-> "user", content |-> user_content],
       [id |-> NextMessageId + 1, conversation_id |-> conversation_id,
        role |-> "bot", content |-> bot_content] >>

Respond(kind, status, detail) ==
  [NoResp EXCEPT !.kind = kind, !.status = status, !.detail = detail]

\* the response to the request held in r: a handler's local variables
RespondTo(r, status, detail) ==
  [NoResp EXCEPT !.kind = r.kind, !.status = status, !.detail = detail,
                 !.api_key = r.api_key, !.filename = r.filename,
                 !.file = r.file, !.conversation_id = r.conversation_id]

\* a request takes the lowest free handler slot (the slots are
\* interchangeable: the server runs every request as a task of its own)
FreeSlot(p) ==
  /\ req[p].pc = "idle"
  /\ \A q \in Procs : q < p => req[q].pc # "idle"

\* faulty variant: the attachment is rebuilt from the local file columns
AttachmentOf_localPath(file_record) ==
  [url |-> file_record.filepath, content_type |-> file_record.content_type,
   name |-> file_record.filename]

\* fp.Attachment(url, content_type, name) of a stored FileRecord
AttachmentOf(file_record) ==
  [url |-> file_record.poe_url, content_type |-> file_record.content_type,
   name |-> file_record.poe_name]

ProtocolMessage(role, content, attachments) ==
  [role |-> role, content |-> content, attachments |-> attachments]

PDF == <<".", "p", "d", "f">>

\* ------------------------------------------------------------------ upload_pdf
\* faulty variant: the suffix test forgets the dot
UploadCheck_noDot(api_key, filename) ==
  IF api_key = "" THEN "API Key is required"
  ELSE IF ~EndsWith(Lower(filename), <<"p", "d", "f">>) THEN "Only PDF files supported"
  ELSE "ok"

\* the checks made before "await file.read()": the detail of the 400 raised,
\* or "ok"
UploadCheck(api_key, filename) ==
  IF api_key = "" THEN "API Key is required"
  ELSE IF ~EndsWith(Lower(filename), PDF) THEN "Only PDF files supported"
  ELSE "ok"

\* the check made on the bytes read
BytesCheck(file) == IF file.size = 0 THEN "Empty file" ELSE "ok"

\* POST /upload arrives: the code up to "await file.read()"
UploadBegin(p) ==
  /\ FreeSlot(p)
  /\ started < MaxRequests
  /\ started' = started + 1
  /\ \E form \in UploadForms :
       LET r == [Idle EXCEPT !.kind = "upload", !.pc = "reading",
                             !.api_key = form.api_key,
                             !.filename = form.filename, !.file = form.file]
           detail == UploadCheck(form.api_key, form.filename)
       IN IF detail # "ok"
          THEN /\ resp' = RespondTo(r, 400, detail)
               /\ UNCHANGED req
          ELSE /\ req' = [req EXCEPT ![p] = r]
               /\ resp' = NoResp
  /\ UNCHANGED << unit, tables, disk, uuids, uploads, sent, continued, overlapped >>

\* file.read() returns: the empty check, the two uuid4 identifiers, the write
\* of the local file and the call of fp.upload_file, up to its await
UploadRead(p) ==
  /\ req[p].kind = "upload"
  /\ req[p].pc = "reading"
  /\ LET detail == BytesCheck(req[p].file)
         conversation_id == uuids + 1
         file_id == << "file", uuids + 1 >>
         save_path == << "uploads", file_id >>
     IN IF detail # "ok"
        THEN /\ resp' = RespondTo(req[p], 400, detail)
             /\ req' = [req EXCEPT ![p] = Idle]
             /\ UNCHANGED << disk, uuids, uploads >>
        ELSE /\ uuids' = uuids + 1
             /\ uploads' = [uploads EXCEPT ![conversation_id] = @ + 1]
             /\ disk' = [f \in DOMAIN disk \cup {save_path} |->
                           IF f = save_path THEN req[p].file ELSE disk[f]]
             /\ req' = [req EXCEPT ![p].pc = "uploading",
                                   ![p].conversation_id = conversation_id,
                                   ![p].file_id = file_id,
                                   ![p].save_path = save_path]
             /\ resp' = NoResp
  /\ UNCHANGED << unit, tables, started, sent, continued, overlapped >>

\* the URL the external service gives the file it stored: one per stored file
CdnUrl(file_id) == <<"cdn", file_id>>

\* fp.upload_file returns the attachment: the first message is built and the
\* bot is called, up to the first "async for" step
UploadFileDone(p) ==
  /\ req[p].kind = "upload"
  /\ req[p].pc = "uploading"
  /\ LET pdf_attachment ==
           [url |-> CdnUrl(req[p].file_id), content_type |-> "application/pdf",
            name |-> req[p].filename]
     IN req' = [req EXCEPT ![p].pc = "streaming",
                           ![p].pdf_attachment = pdf_attachment,
                           ![p].poe_messages =
                             << ProtocolMessage("user", initial_prompt,
                                                << pdf_attachment >>) >>,
                           ![p].response_text = ""]
  /\ resp' = NoResp
  /\ UNCHANGED << unit, tables, disk, uuids, started, uploads, sent, continued,
                  overlapped >>

\* fp.upload_file raises: the exception leaves the handler (500)
UploadFileError(p) ==
  /\ req[p].kind = "upload"
  /\ req[p].pc = "uploading"
  /\ resp' = RespondTo(req[p], 500, "upload_file failed")
  /\ req' = [req EXCEPT ![p] = Idle]
  /\ UNCHANGED << unit, tables, disk, uuids, started, uploads, sent, continued,
                  overlapped >>

\* the rows upload_pdf adds to its session before the commit
UploadConversation(r, final_title) ==
  [id |-> r.conversation_id, title |-> final_title,
   original_filename |-> r.filename, status |-> "active",
   created_at |-> Cardinality(conversations) + 1]

\* faulty variant: the FileRecord row does not carry its conversation_id
UploadFileRecord_orphan(r) ==
  [id |-> r.file_id, conversation_id |-> 0,
   filename |-> r.filename, filepath |-> r.save_path,
   poe_url |-> r.pdf_attachment.url,
   content_type |-> r.pdf_attachment.content_type,
   poe_name |-> r.pdf_attachment.name]

UploadFileRecord(r) ==
  [id |-> r.file_id, conversation_id |-> r.conversation_id,
   filename |-> r.filename, filepath |-> r.save_path,
   poe_url |-> r.pdf_attachment.url,
   content_type |-> r.pdf_attachment.content_type,
   poe_name |-> r.pdf_attachment.name]

\* faulty variant: no fallback to the file name
FinalTitle_noFallback(extracted_title, filename) ==
  IF extracted_title = None THEN <<>> ELSE extracted_title.value

\* extracted_title or file.filename
FinalTitle(extracted_title, filename) ==
  IF extracted_title = None THEN filename
  ELSE IF extracted_title.value = <<>> THEN filename
  ELSE extracted_title.value

\* the stream ends: title extraction, the four rows, one commit, the return
UploadFinish(p) ==
  /\ req[p].kind = "upload"
  /\ req[p].pc = "streaming"
  /\ LET r == req[p]
         final_title == FinalTitle(extract_pdf_title(disk[r.save_path]), r.filename)
     IN /\ conversations' = conversations \cup {UploadConversation(r, final_title)}
        /\ file_records' = file_records \cup {UploadFileRecord(r)}
        /\ messages' = AddTurn(r.conversation_id, initial_prompt, r.response_text)
        /\ sent' = sent @@ ((NextMessageId + 1) :> r.poe_messages)
        /\ resp' = [RespondTo(r, 200, "") EXCEPT !.reply = r.response_text]
  /\ req' = [req EXCEPT ![p] = Idle]
  /\ UNCHANGED << unit, disk, uuids, started, uploads, continued, overlapped >>

\* ---------------------------------------------------------- the bot's stream
\* faulty variant: the fragment is put in front of the text gathered so far
BotChunk_prepend(p) ==
  /\ req[p].pc = "streaming"
  /\ req[p].chunks < MaxChunks
  /\ req' = [req EXCEPT ![p].response_text = Fragment(req[p].chunks + 1) \o @,
                        ![p].chunks = @ + 1]
  /\ resp' = NoResp
  /\ UNCHANGED << unit, tables, disk, uuids, started, uploads, sent, continued,
                  overlapped >>

\* one fragment arrives: response_text += partial.text
BotChunk(p) ==
  /\ req[p].pc = "streaming"
  /\ req[p].chunks < MaxChunks
  /\ req' = [req EXCEPT ![p].response_text = @ \o Fragment(req[p].chunks + 1),
                        ![p].chunks = @ + 1]
  /\ resp' = NoResp
  /\ UNCHANGED << unit, tables, disk, uuids, started, uploads, sent, continued,
                  overlapped >>

\* faulty variant: the user row is written before the bot is called, so a
\* failing bot call leaves it behind
BotError_savesUser(p) ==
  /\ req[p].pc = "streaming"
  /\ resp' = RespondTo(req[p], 500, "get_bot_response failed")
  /\ req' = [req EXCEPT ![p] = Idle]
  /\ messages' = Append(messages,
                        [id |-> Len(messages) + 1,
                         conversation_id |-> req[p].conversation_id,
                         role |-> "user",
                         content |-> req[p].poe_messages[Len(req[p].poe_messages)].content])
  /\ UNCHANGED << unit, conversations, file_records, disk, uuids, started, uploads,
                  sent, continued, overlapped >>

\* fp.get_bot_response raises: the exception leaves the handler (500)
BotError(p) ==
  /\ req[p].pc = "streaming"
  /\ resp' = RespondTo(req[p], 500, "get_bot_response failed")
  /\ req' = [req EXCEPT ![p] = Idle]
  /\ UNCHANGED << unit, tables, disk, uuids, started, uploads, sent, continued,
                  overlapped >>

\* the handler's task is cancelled while it waits at an await: CancelledError
\* leaves the handler and no response is sent
Cancel(p) ==
  /\ req[p].pc \in {"reading", "uploading", "streaming"}
  /\ resp' = RespondTo(req[p], 0, "cancelled")
  /\ req' = [req EXCEPT ![p] = Idle]
  /\ UNCHANGED << unit, tables, disk, uuids, started, uploads, sent, continued,
                  overlapped >>

\* -------------------------------------------------------- continue_translation
NoFileRecord ==
  [id |-> <<>>, conversation_id |-> 0, filename |-> <<>>, filepath |-> <<>>,
   poe_url |-> <<>>, content_type |-> "", poe_name |-> <<>>]

\* session.exec(select(FileRecord).where(...)).first(): a matching row, or
\* nothing
FirstFileRecord(conversation_id) ==
  IF FileRecordRows(conversation_id) = {} THEN NoFileRecord
  ELSE CHOOSE f \in FileRecordRows(conversation_id) : TRUE

\* faulty variant: the ledger lookups are skipped
ContinueCheck_keyOnly(api_key, conversation_id) ==
  IF api_key = "" THEN "API Key required" ELSE "ok"

\* faulty variant: the conversation is looked up before the api_key is tested
ContinueCheck_lookupFirst(api_key, conversation_id) ==
  IF ConversationRows(conversation_id) = {} THEN "Conversation not found"
  ELSE IF api_key = "" THEN "API Key required"
  ELSE IF FirstFileRecord(conversation_id) = NoFileRecord THEN "File record not found"
  ELSE "ok"

\* the checks of continue_translation in their order: the detail of the
\* HTTPException raised, or "ok"
ContinueCheck(api_key, conversation_id) ==
  IF api_key = "" THEN "API Key required"
  ELSE IF ConversationRows(conversation_id) = {} THEN "Conversation not found"
  ELSE IF FirstFileRecord(conversation_id) = NoFileRecord THEN "File record not found"
  ELSE "ok"

StatusOf(detail) == IF detail = "API Key required" THEN 400 ELSE 404

\* faulty variant: the attachment is put on every user message of the history
BuildPoeMessages_everyUser(db_messages, pdf_attachment) ==
  [i \in 1 .. Len(db_messages) |->
     IF db_messages[i].role = "user"
     THEN ProtocolMessage("user", db_messages[i].content, << pdf_attachment >>)
     ELSE ProtocolMessage(db_messages[i].role, db_messages[i].content, <<>>)]
  \o << ProtocolMessage("user", CONTINUE, <<>>) >>

\* the loop over enumerate(db_messages) and the appended "继续" message
BuildPoeMessages(db_messages, pdf_attachment) ==
  [i \in 1 .. Len(db_messages) |->
     IF i = 1 /\ db_messages[i].role = "user"
     THEN ProtocolMessage("user", db_messages[i].content, << pdf_attachment >>)
     ELSE ProtocolMessage(db_messages[i].role, db_messages[i].content, <<>>)]
  \o << ProtocolMessage("user", CONTINUE, <<>>) >>

\* POST /continue/{conversation_id} arrives: the checks, the reads of the
\* ledger, the outbound message list and the call of the bot, up to the first
\* "async for" step
ContinueBegin(p) ==
  /\ FreeSlot(p)
  /\ started < MaxRequests
  /\ started' = started + 1
  /\ \E api_key \in ApiKeys, conversation_id \in ConvIds :
       LET detail == ContinueCheck(api_key, conversation_id)
           pdf_attachment == AttachmentOf(FirstFileRecord(conversation_id))
           r == [Idle EXCEPT !.kind = "continue", !.pc = "streaming",
                             !.api_key = api_key,
                             !.conversation_id = conversation_id,
                             !.pdf_attachment = pdf_attachment,
                             !.poe_messages =
                               BuildPoeMessages(MessagesOf(conversation_id),
                                                pdf_attachment)]
       IN IF detail # "ok"
          THEN /\ resp' = RespondTo(r, StatusOf(detail), detail)
               /\ UNCHANGED << req, overlapped >>
          ELSE /\ req' = [req EXCEPT ![p] = r]
               /\ overlapped' =
                    IF \E q \in Procs \ {p} :
                         /\ req[q].kind = "continue"
                         /\ req[q].pc = "streaming"
                         /\ req[q].conversation_id = conversation_id
                    THEN overlapped \cup {conversation_id}
                    ELSE overlapped
               /\ resp' = NoResp
  /\ UNCHANGED << unit, tables, disk, uuids, uploads, sent, continued >>

\* faulty variant: the turn is written only if the history is still the one
\* read when the request began, and is dropped otherwise
ContinueFinish_lostTurn(p) ==
  /\ req[p].kind = "continue"
  /\ req[p].pc = "streaming"
  /\ LET r == req[p] IN
       /\ messages' =
            IF Len(MessagesOf(r.conversation_id)) + 1 = Len(r.poe_messages)
            THEN AddTurn(r.conversation_id, CONTINUE, r.response_text)
            ELSE messages
       /\ sent' = sent @@ ((NextMessageId + 1) :> r.poe_messages)
       /\ continued' = [continued EXCEPT ![r.conversation_id] = @ + 1]
       /\ resp' = [RespondTo(r, 200, "") EXCEPT !.reply = r.response_text]
  /\ req' = [req EXCEPT ![p] = Idle]
  /\ UNCHANGED << unit, conversations, file_records, disk, uuids, started,
                  uploads, overlapped >>

\* the stream ends: the two rows, one commit, the return
ContinueFinish(p) ==
  /\ req[p].kind = "continue"
  /\ req[p].pc = "streaming"
  /\ LET r == req[p] IN
       /\ messages' = AddTurn(r.conversation_id, CONTINUE, r.response_text)
       /\ sent' = sent @@ ((NextMessageId + 1) :> r.poe_messages)
       /\ continued' = [continued EXCEPT ![r.conversation_id] = @ + 1]
       /\ resp' = [RespondTo(r, 200, "") EXCEPT !.reply = r.response_text]
  /\ req' = [req EXCEPT ![p] = Idle]
  /\ UNCHANGED << unit, conversations, file_records, disk, uuids, started,
                  uploads, overlapped >>

\* ------------------------------------------------------------- read endpoints
\* the response of GET /conversation/{conversation_id}
get_conversation(conversation_id) ==
  IF ConversationRows(conversation_id) = {}
  THEN [Respond("get", 404, "Conversation not found") EXCEPT
          !.conversation_id = conversation_id]
  ELSE LET conversation == CHOOSE c \in ConversationRows(conversation_id) : TRUE
           db_messages == MessagesOf(conversation_id)
       IN [Respond("get", 200, "") EXCEPT
             !.conversation_id = conversation.id,
             !.title = conversation.title,
             !.messages = [i \in 1 .. Len(db_messages) |->
                             [role |-> db_messages[i].role,
                              content |-> db_messages[i].content]]]

GetConversation ==
  /\ started < MaxRequests
  /\ started' = started + 1
  /\ \E conversation_id \in ConvIds : resp' = get_conversation(conversation_id)
  /\ UNCHANGED << unit, tables, disk, req, uuids, uploads, sent, continued, overlapped >>

\* conversations ordered by created_at descending, as [id, title]
RECURSIVE ByCreatedDesc(_)
ByCreatedDesc(cs) ==
  IF cs = {} THEN <<>>
  ELSE LET c == CHOOSE x \in cs : \A y \in cs : y.created_at <= x.created_at
       IN << [id |-> c.id, title |-> c.title] >> \o ByCreatedDesc(cs \ {c})

list_conversations ==
  [Respond("list", 200, "") EXCEPT !.listing = ByCreatedDesc(conversations)]

ListConversations ==
  /\ started < MaxRequests
  /\ started' = started + 1
  /\ resp' = list_conversations
  /\ UNCHANGED << unit, tables, disk, req, uuids, uploads, sent, continued, overlapped >>

\* ------------------------------------------------------------ specification
Next ==
  \/ \E p \in Procs : UploadBegin(p)
  \/ \E p \in Procs : UploadRead(p)
  \/ \E p \in Procs : UploadFileDone(p)
  \/ \E p \in Procs : UploadFileError(p)
  \/ \E p \in Procs : UploadFinish(p)
  \/ \E p \in Procs : ContinueBegin(p)
  \/ \E p \in Procs : ContinueFinish(p)
  \/ \E p \in Procs : BotChunk(p)
  \/ \E p \in Procs : BotError(p)
  \/ \E p \in Procs : Cancel(p)
  \/ GetConversation
  \/ ListConversations

Spec == Init /\ [][Next]_vars

\* ------------------------------------------------- the title functions alone
\* lines of a first page, as fitz reports them
MaxLines == 3

DEEP_LEARNING == <<"D", "e", "e", "p", " ", "L", "e", "a", "r", "n", "i", "n", "g">>

GRAPH_NETWORKS == <<"G", "r", "a", "p", "h", " ", "N", "e", "t", "w", "o", "r", "k", "s">>

SPARSE_CODING == <<"S", "p", "a", "r", "s", "e", " ", "C", "o", "d", "i", "n", "g">>

ARXIV_HEADER == <<"a", "r", "X", "i", "v", ":", "2", "3", "0", "1", ".", "0", "7">>

Span(text, size) == [text |-> text, size |-> size]

\* the lines tried: titles in one span and in two, a blank span in a larger
\* font, an arXiv header and a short heading in the largest fonts
PageLineSet ==
  { [spans |-> << Span(DEEP_LEARNING, 14) >>],
    [spans |-> << Span(<<"G", "r", "a", "p", "h", " ">>, 12),
                  Span(<<" ", "N", "e", "t", "w", "o", "r", "k", "s">>, 18) >>],
    [spans |-> << Span(SPARSE_CODING, 18) >>],
    [spans |-> << Span(SPARSE_CODING, 12), Span(<<" ", " ">>, 30) >>],
    [spans |-> << Span(ARXIV_HEADER, 20) >>],
    [spans |-> << Span(<<"A", "b", "s", "t", "r", "a", "c", "t">>, 22) >>] }

\* the sequences of at most n lines
RECURSIVE LineSeqs(_)
LineSeqs(n) ==
  IF n = 0 THEN { <<>> }
  ELSE LineSeqs(n - 1) \cup
       { Append(ls, l) : ls \in { x \in LineSeqs(n - 1) : Len(x) = n - 1 },
                         l \in PageLineSet }

\* the files extract_pdf_title is called on: first pages made of an image
\* block and of the lines split over two text blocks, a PDF without pages, a
\* first page without blocks, and bytes that are no PDF
TitleFiles ==
  { [size |-> 1,
     pages |-> << << [image |-> 1],
                     [lines |-> IF ls = <<>> THEN <<>> ELSE << Head(ls) >>],
                     [lines |-> IF ls = <<>> THEN <<>> ELSE Tail(ls)] >> >>] :
      ls \in LineSeqs(MaxLines) }
  \cup { [size |-> 1, pages |-> <<>>], [size |-> 1, pages |-> << <<>> >>],
         GarbageFile, PaperFile }

\* the texts is_valid_title is called on: a start, a middle and an end
TitleStarts ==
  { <<>>, <<" ">>, <<"a", "r", "X", "i", "v">>, <<"A", "R", "X", "I", "V", " ">>, <<"O", "n", " ", "a", "r", "X", "i", "v", " ">> }

TitleMiddles ==
  { <<"D", "e", "e", "p">>, <<"D", "e", "e", "p", " ", "L", "e", "a", "r", "n", "i", "n", "g">>, <<"V", "o", "l", " ", "2", "3", "0", "1", " ">>, <<"N", "o", " ", "1", "2", "3", " ", "4", "5", "6", " ">>,
    <<"[", "c", "s", ".", "C", "L", "]", " ">>, <<"]", " ", "t", "h", "e", "n", " ", "[", " ">>, <<"a", "@", "b", ".", "o", "r", "g", " ">> }

TitleEnds ==
  { <<>>, <<" ", "\n">>, <<" ", "m", "e", "t", "h", "o", "d", "s">>, <<" ", "2", "0", "x", "2", "4">> }

TitleTexts ==
  { a \o b \o c : a \in TitleStarts, b \in TitleMiddles, c \in TitleEnds }

TitleInit ==
  /\ conversations = {}
  /\ messages = <<>>
  /\ file_records = {}
  /\ disk = [f \in {} |-> EmptyFile]
  /\ req = [p \in Procs |-> Idle]
  /\ resp = NoResp
  /\ uuids = 0
  /\ started = 0
  /\ uploads = [c \in ConvIds |-> 0]
  /\ sent = <<>>
  /\ continued = [c \in ConvIds |-> 0]
  /\ overlapped = {}
  /\ unit \in { [fn |-> "is_valid_title", arg |-> text, done |-> FALSE] :
                  text \in TitleTexts }
          \cup { [fn |-> "extract_pdf_title", arg |-> file, done |-> FALSE] :
                  file \in TitleFiles }

IsValidTitleCall ==
  /\ unit.fn = "is_valid_title"
  /\ ~unit.done
  /\ unit' = [fn |-> unit.fn, arg |-> unit.arg, done |-> TRUE,
              ret |-> is_valid_title(unit.arg)]
  /\ UNCHANGED << tables, disk, req, resp, uuids, started, uploads, sent,
                  continued, overlapped >>

ExtractPdfTitleCall ==
  /\ unit.fn = "extract_pdf_title"
  /\ ~unit.done
  /\ unit' = [fn |-> unit.fn, arg |-> unit.arg, done |-> TRUE,
              ret |-> extract_pdf_title(unit.arg)]
  /\ UNCHANGED << tables, disk, req, resp, uuids, started, uploads, sent,
                  continued, overlapped >>

TitleNext ==
  \/ IsValidTitleCall
  \/ ExtractPdfTitleCall

TitleSpec == TitleInit /\ [][TitleNext]_vars

\* ===================================================================== claims
InFlight(p) == req[p].pc # "idle"

RolesAndContents(ms) ==
  [i \in 1 .. Len(ms) |-> [role |-> ms[i].role, content |-> ms[i].content]]

\* C1: right after an upload request answers 200, get_conversation of the
\* returned conversation_id answers 200 with exactly two messages, the user
\* message holding the initial prompt and then the bot message holding the
\* returned reply, and their ids ascend.
C1_UploadThenGetTwoMessages ==
  (resp.kind = "upload" /\ resp.status = 200) =>
    LET got == get_conversation(resp.conversation_id)
        rows == SelectSeq2(messages, resp.conversation_id)
    IN /\ resp.api_key # ""
       /\ resp.file.size > 0
       /\ got.status = 200
       /\ got.messages = << [role |-> "user", content |-> initial_prompt],
                            [role |-> "bot", content |-> resp.reply] >>
       /\ Len(rows) = 2
       /\ rows[1].id < rows[2].id
       /\ rows[1].role = "user"

C1_Witness ==
  /\ resp.kind = "upload"
  /\ resp.status = 200
  /\ resp.reply = "ab"
  /\ Cardinality(conversations) = 2

\* C2: a conversation on which N continue requests succeeded, none of them
\* overlapping another continue request on it, holds exactly 2 + 2N
\* messages in ascending id order, with strictly increasing ids,
\* alternating user, bot, ... from user, and every user message after the
\* first holds "继续".
C2_SequentialTurns ==
  \A c \in conversations :
    c.id \notin overlapped =>
      LET ms == MessagesOf(c.id) IN
        /\ Len(ms) = 2 + 2 * continued[c.id]
        /\ \A i \in 1 .. (Len(ms) - 1) : ms[i].id < ms[i + 1].id
        /\ \A i \in 1 .. Len(ms) :
             ms[i].role = (IF i % 2 = 1 THEN "user" ELSE "bot")
        /\ \A i \in 2 .. Len(ms) : ms[i].role = "user" => ms[i].content = CONTINUE
        /\ ms[1].content = initial_prompt

C2_Witness ==
  \E c \in conversations :
    /\ c.id \notin overlapped
    /\ continued[c.id] = 2
    /\ Len(MessagesOf(c.id)) = 6

\* C3: the tables change only in the step in which a handler that was
\* streaming ends with 200, and the bot row written then holds the fully
\* accumulated reply; every step that ends a request with an upstream failure
\* (500) or by cancellation, and every step of a request still in flight,
\* leaves conversations, messages and file_records as they were.
C3_PersistOnlyAfterReply ==
  [][ /\ (tables' # tables) =>
           \E p \in Procs :
             /\ req[p].pc = "streaming"
             /\ req'[p] = Idle
             /\ resp'.status = 200
             /\ resp'.reply = req[p].response_text
             /\ Len(messages') = Len(messages) + 2
             /\ messages'[Len(messages')].role = "bot"
             /\ messages'[Len(messages')].content = req[p].response_text
      /\ (resp'.status = 500 \/ resp'.detail = "cancelled") => UNCHANGED tables
    ]_vars

C3_Witness ==
  /\ resp.kind = "continue"
  /\ resp.detail \in {"cancelled", "get_bot_response failed"}
  /\ Len(messages) = 2

\* C4: a continue request with a non-empty api_key for a conversation_id that
\* is not in the conversations table is answered 404 in the step in which it
\* arrives, takes no handler slot (so the bot is never called for it) and
\* leaves every table, the disk and the record of bot calls unchanged.
C4_ContinueMissingIsNoOp ==
  [][ ( /\ resp'.kind = "continue"
        /\ resp'.api_key # ""
        /\ ConversationRows(resp'.conversation_id) = {} )
      => /\ resp'.status = 404
         /\ UNCHANGED << tables, disk, req, sent, continued, uploads >>
    ]_vars

C4_Witness ==
  /\ resp.kind = "continue"
  /\ resp.status = 404
  /\ resp.api_key # ""
  /\ conversations # {}
  /\ ConversationRows(resp.conversation_id) = {}

\* the attachment reference a FileRecord row stores
StoredRef(f) == [url |-> f.poe_url, content_type |-> f.content_type, name |-> f.poe_name]

C5_State ==
  /\ \A c \in conversations :
       /\ uploads[c.id] = 1
       /\ \A f \in FileRecordRows(c.id) :
            \E i \in 1 .. Len(messages) :
              /\ messages[i].conversation_id = c.id
              /\ messages[i].role = "bot"
              /\ sent[messages[i].id][1].attachments = << StoredRef(f) >>
  /\ \A p \in Procs :
       (req[p].kind = "continue" /\ req[p].pc = "streaming") =>
         /\ \A f \in FileRecordRows(req[p].conversation_id) :
              req[p].poe_messages[1].attachments = << StoredRef(f) >>
         /\ FileRecordRows(req[p].conversation_id) # {}

C5_Step ==
  /\ \A f \in file_records : f \in file_records'
  /\ \A c \in conversations : FileRecordRows(c.id)' = FileRecordRows(c.id)
  /\ (uploads' # uploads) =>
       \E p \in Procs : req[p].kind = "upload" /\ req'[p].pc = "uploading"

\* C5: fp.upload_file is called exactly once for every conversation in the
\* ledger, and only by upload_pdf; a stored FileRecord never changes; the
\* attachment the initial bot call carried and the attachment every continue
\* request sends with its first message equal the reference stored in the
\* conversation's FileRecord.
C5_AttachmentUploadedOnceAndReused == []C5_State /\ [][C5_Step]_vars

C5_Witness ==
  \E p \in Procs :
    /\ req[p].kind = "continue"
    /\ req[p].pc = "streaming"
    /\ continued[req[p].conversation_id] = 1
    /\ req[p].poe_messages[1].attachments # <<>>

\* C6: for every bot message at position k > 1 of a conversation's messages
\* in ascending id order, the message list sent to the bot to obtain it has
\* the roles and contents of the ledger messages before it, overlapping
\* continue requests included.
C6_LedgerIsTranscript ==
  \A c \in conversations :
    LET ms == MessagesOf(c.id) IN
      \A k \in 2 .. Len(ms) :
        ms[k].role = "bot" =>
          RolesAndContents(sent[ms[k].id]) = RolesAndContents(SubSeq(ms, 1, k - 1))

\* C7: every conversation row has exactly one FileRecord and at least its
\* first two messages, user then bot, and no continue request is answered
\* "File record not found".
C7_ConversationComplete ==
  /\ \A c \in conversations :
       LET ms == MessagesOf(c.id) IN
         /\ Cardinality(FileRecordRows(c.id)) = 1
         /\ Len(ms) >= 2
         /\ ms[1].role = "user"
         /\ ms[2].role = "bot"
  /\ resp.detail # "File record not found"

C7_Witness ==
  /\ resp.kind = "continue"
  /\ resp.status = 200
  /\ Cardinality(conversations) = 2

\* the inputs upload_pdf must reject, written from the claim: an empty
\* api_key, a filename whose last four characters are not ".pdf" in any
\* letter case, or no bytes
InvalidUploadInput(api_key, filename, file) ==
  LET n == Len(filename) IN
    \/ api_key = ""
    \/ n < 4
    \/ filename[n - 3] # "."
    \/ filename[n - 2] \notin {"p", "P"}
    \/ filename[n - 1] \notin {"d", "D"}
    \/ filename[n] \notin {"f", "F"}
    \/ file.size = 0

\* C8: an upload request with invalid input that is answered is answered 400,
\* in a step that leaves the tables, the disk, the count of external uploads
\* and the record of bot calls unchanged, by a handler that had written no
\* file and called neither the external upload nor the bot.
C8_InvalidUploadTouchesNothing ==
  [][ ( /\ resp'.kind = "upload"
        /\ resp'.detail # "cancelled"
        /\ InvalidUploadInput(resp'.api_key, resp'.filename, resp'.file) )
      => /\ resp'.status = 400
         /\ UNCHANGED << tables, disk, uploads, sent >>
         /\ \A p \in Procs :
              req'[p] # req[p] =>
                /\ req[p].pc = "reading"
                /\ req[p].save_path = <<>>
                /\ req[p].poe_messages = <<>>
                /\ req'[p] = Idle
    ]_vars

C8_Witness ==
  /\ resp.kind = "upload"
  /\ resp.status = 400
  /\ resp.detail = "Empty file"
  /\ conversations # {}

\* C9: every step keeps every conversation and file-record row and keeps the
\* messages table as a prefix; it appends either nothing or exactly two
\* messages of one conversation, user then bot, with ids above every id
\* already in the table; a get, a list and every request that does not answer
\* 200 leave the three tables unchanged.
C9_AppendOnlyInPairs ==
  [][ /\ conversations \subseteq conversations'
      /\ file_records \subseteq file_records'
      /\ Len(messages') >= Len(messages)
      /\ SubSeq(messages', 1, Len(messages)) = messages
      /\ \/ messages' = messages
         \/ /\ Len(messages') = Len(messages) + 2
            /\ LET u == messages'[Len(messages) + 1]
                   b == messages'[Len(messages) + 2]
               IN /\ u.role = "user"
                  /\ b.role = "bot"
                  /\ u.conversation_id = b.conversation_id
                  /\ u.id < b.id
                  /\ \A i \in 1 .. Len(messages) : messages[i].id < u.id
      /\ (resp'.kind \in {"get", "list"} \/ resp'.status # 200) => UNCHANGED tables
    ]_vars

C9_Witness ==
  /\ resp.kind = "continue"
  /\ resp.status = 200
  /\ Len(messages) = 4

\* C10: whenever no request is in flight, the files under uploads/ and the
\* FileRecord rows correspond one to one through filepath.
C10_FilesMatchRecords ==
  (\A p \in Procs : ~InFlight(p)) =>
    /\ \A path \in DOMAIN disk :
         Cardinality({f \in file_records : f.filepath = path}) = 1
    /\ \A f \in file_records :
         /\ f.filepath \in DOMAIN disk
         /\ Cardinality({g \in file_records : g.filepath = f.filepath}) = 1

\* the first n fragments of a stream, joined in their arrival order
RECURSIVE FragmentsUpTo(_)
FragmentsUpTo(n) == IF n = 0 THEN "" ELSE FragmentsUpTo(n - 1) \o Fragment(n)

\* C11: in the step in which an upload or continue request answers 200, the
\* reply returned is the fragments that arrived for it, joined in their
\* arrival order, and it is the content of the bot row that this step
\* appends for the request's conversation.
C11_ReplyIsFragmentsInOrder ==
  [][ (resp'.status = 200 /\ resp'.kind \in {"upload", "continue"}) =>
        \E p \in Procs :
          /\ req[p].kind = resp'.kind
          /\ req[p].pc = "streaming"
          /\ req'[p] = Idle
          /\ resp'.reply = FragmentsUpTo(req[p].chunks)
          /\ Len(messages') = Len(messages) + 2
          /\ messages'[Len(messages')].role = "bot"
          /\ messages'[Len(messages')].conversation_id = req[p].conversation_id
          /\ messages'[Len(messages')].content = resp'.reply
    ]_vars

C11_Witness ==
  /\ resp.kind = "continue"
  /\ resp.status = 200
  /\ resp.reply = "ab"
  /\ messages[Len(messages)].content = "ab"
  /\ messages[2].content = "a"

\* the rows of one conversation, in the order of the table
RowsOf(conversation_id) ==
  SelectSeq(messages, LAMBDA m : m.conversation_id = conversation_id)

\* a continue request passes its checks and calls the bot in this step
CallsBot(p) ==
  /\ req[p].pc = "idle"
  /\ req'[p].kind = "continue"
  /\ req'[p].pc = "streaming"

\* C12: when a continue request calls the bot for a conversation that holds k
\* messages, it sends k + 1 messages: the k stored messages in ascending id
\* order with their role and content, then one user message "继续"; the
\* first message, a user message, carries one attachment and no other
\* message carries any.
C12_OutboundList ==
  [][ \A p \in Procs :
        CallsBot(p) =>
          LET hist == RowsOf(req'[p].conversation_id)
              out == req'[p].poe_messages
              k == Len(hist)
          IN /\ k >= 2
             /\ Len(out) = k + 1
             /\ \A i \in 1 .. (k - 1) : hist[i].id < hist[i + 1].id
             /\ \A i \in 1 .. k :
                  /\ out[i].role = hist[i].role
                  /\ out[i].content = hist[i].content
             /\ out[k + 1].role = "user"
             /\ out[k + 1].content = "继续"
             /\ { i \in 1 .. (k + 1) : out[i].attachments # <<>> } = {1}
             /\ Len(out[1].attachments) = 1
             /\ out[1].role = "user"
             /\ hist[1].role = "user"
    ]_vars

C12_Witness ==
  \E p \in Procs :
    /\ req[p].kind = "continue"
    /\ req[p].pc = "streaming"
    /\ Len(req[p].poe_messages) = 5
    /\ req[p].poe_messages[3].role = "user"
    /\ req[p].poe_messages[2].content = "ab"

\* C13: in every reachable state, overlapping continue requests included,
\* the messages of every conversation in ascending id order alternate user,
\* bot, ... from user and number 2 + 2N, N being the continue requests on it
\* that have completed: a pair is never split and no turn is lost.
C13_TurnsCommittedTogether ==
  \A c \in conversations :
    LET ms == MessagesOf(c.id) IN
      /\ Len(ms) = 2 + 2 * continued[c.id]
      /\ \A i \in 1 .. Len(ms) :
           ms[i].role = (IF i % 2 = 1 THEN "user" ELSE "bot")

C13_Witness ==
  \E c \in conversations :
    /\ c.id \in overlapped
    /\ continued[c.id] = 2
    /\ \A p \in Procs : ~InFlight(p)
    /\ Len(MessagesOf(c.id)) = 6

\* C14: a continue request calls the bot with the rows of its own
\* conversation only and with the attachment its own FileRecord stores; a
\* get returns the rows and the title of the conversation asked for only;
\* and a step of a handler that works for one conversation leaves the row,
\* the message sequence and the FileRecord of every other conversation as
\* they were.
C14_ConversationsIsolated ==
  [][ /\ \A p \in Procs :
           CallsBot(p) =>
             LET A == req'[p].conversation_id
                 out == req'[p].poe_messages
             IN /\ RolesAndContents(SubSeq(out, 1, Len(out) - 1)) =
                     RolesAndContents(RowsOf(A))
                /\ \E f \in file_records :
                     /\ f.conversation_id = A
                     /\ out[1].attachments = << StoredRef(f) >>
      /\ (resp'.kind = "get" /\ resp'.status = 200) =>
           /\ resp'.messages = RolesAndContents(RowsOf(resp'.conversation_id))
           /\ \E c \in conversations :
                c.id = resp'.conversation_id /\ c.title = resp'.title
      /\ \A c \in conversations :
           (\A p \in Procs : req'[p] # req[p] => req[p].conversation_id # c.id) =>
             /\ c \in conversations'
             /\ RowsOf(c.id)' = RowsOf(c.id)
             /\ FileRecordRows(c.id)' = FileRecordRows(c.id)
    ]_vars

C14_Witness ==
  /\ Cardinality(conversations) = 2
  /\ RowsOf(1)[2].content # RowsOf(2)[2].content
  /\ \E p \in Procs :
       /\ req[p].kind = "continue"
       /\ req[p].pc = "streaming"
       /\ req[p].conversation_id = 2
       /\ req[p].poe_messages[2].content = RowsOf(2)[2].content

\* C15: a continue request with an empty api_key is answered 400 "API Key
\* required", whether its conversation exists or not; one with an api_key
\* for a conversation that is not stored is answered 404 "Conversation not
\* found", the outcome of the conversation lookup and not of the file record
\* lookup; both are answered in the step in which they arrive, which takes
\* no handler slot, calls no bot and writes nothing.
C15_ContinueCheckOrder ==
  [][ /\ (resp'.kind = "continue" /\ resp'.api_key = "") =>
           /\ resp'.status = 400
           /\ resp'.detail = "API Key required"
           /\ UNCHANGED << tables, disk, req, sent, continued, uploads >>
      /\ ( /\ resp'.kind = "continue"
           /\ resp'.api_key # ""
           /\ ConversationRows(resp'.conversation_id) = {} ) =>
           /\ resp'.status = 404
           /\ resp'.detail = "Conversation not found"
           /\ FileRecordRows(resp'.conversation_id) = {}
           /\ UNCHANGED << tables, disk, req, sent, continued, uploads >>
    ]_vars

C15_Witness ==
  /\ resp.kind = "continue"
  /\ resp.status = 400
  /\ resp.api_key = ""
  /\ conversations # {}
  /\ ConversationRows(resp.conversation_id) = {}

\* C16: extract_pdf_title returns a title or nothing for every stored file,
\* and an upload that answers 200 has committed its conversation with the
\* extracted title if there is one and with the file name otherwise,
\* together with its FileRecord and its two messages.
C16_TitleNeverFailsUpload ==
  (resp.kind = "upload" /\ resp.status = 200) =>
    LET extracted_title == extract_pdf_title(resp.file) IN
      /\ \/ extracted_title = None
         \/ DOMAIN extracted_title = {"value"} /\ extracted_title.value # <<>>
      /\ resp.file = PaperFile => extracted_title = Some(DEEP_LEARNING)
      /\ resp.file = GarbageFile => extracted_title = None
      /\ \E c \in conversations :
           /\ c.id = resp.conversation_id
           /\ c.original_filename = resp.filename
           /\ c.title = (IF extracted_title = None THEN resp.filename
                         ELSE extracted_title.value)
      /\ Cardinality(FileRecordRows(resp.conversation_id)) = 1
      /\ RolesAndContents(RowsOf(resp.conversation_id)) =
           << [role |-> "user", content |-> initial_prompt],
              [role |-> "bot", content |-> resp.reply] >>

C16_Witness ==
  /\ resp.kind = "upload"
  /\ resp.status = 200
  /\ resp.file = GarbageFile
  /\ \E c \in conversations : c.title = B_PDF_UPPER
  /\ \E c \in conversations : c.title = DEEP_LEARNING

\* the text lines of a page in document order
RECURSIVE PageLines(_)
PageLines(blocks) ==
  IF blocks = <<>> THEN <<>>
  ELSE (IF "lines" \in DOMAIN Head(blocks) THEN Head(blocks).lines ELSE <<>>)
       \o PageLines(Tail(blocks))

\* the text of a line: the non-blank span texts, trimmed, one blank between
RECURSIVE JoinSpans(_)
JoinSpans(spans) ==
  IF spans = <<>> THEN <<>>
  ELSE LET t == Strip(Head(spans).text)
           rest == JoinSpans(Tail(spans))
       IN IF t = <<>> THEN rest
          ELSE IF rest = <<>> THEN t
          ELSE t \o <<" ">> \o rest

LargestOf(S) == IF S = {} THEN 0 ELSE CHOOSE x \in S : \A y \in S : y <= x

\* the largest font size among all the spans of a line
MaxSpanSize(line) ==
  LargestOf({ line.spans[i].size : i \in 1 .. Len(line.spans) })

\* the largest font size among the spans of a line whose text is not blank
MaxTextSpanSize(line) ==
  LargestOf({ line.spans[i].size :
                i \in { j \in 1 .. Len(line.spans) : Strip(line.spans[j].text) # <<>> } })

\* the title the claim names for a first page: nothing if no line is valid,
\* else the text of the earliest valid line of the largest Size
ClaimedTitle(blocks, Size(_)) ==
  LET lines == PageLines(blocks)
      valid == { i \in 1 .. Len(lines) : is_valid_title(JoinSpans(lines[i].spans)) }
  IN IF valid = {} THEN None
     ELSE LET i == CHOOSE i \in valid :
                     /\ \A j \in valid : Size(lines[j]) <= Size(lines[i])
                     /\ \A j \in valid : j < i => Size(lines[j]) < Size(lines[i])
          IN Some(JoinSpans(lines[i].spans))

Extracted ==
  /\ unit.fn = "extract_pdf_title"
  /\ unit.done
  /\ "pages" \in DOMAIN unit.arg
  /\ unit.arg.pages # <<>>

\* C17 as stated: extract_pdf_title returns nothing when no line of the
\* first page passes is_valid_title, and otherwise the text of the earliest
\* valid line among those of the largest maximum span font size.
C17_LargestSpanFont ==
  Extracted => unit.ret = ClaimedTitle(unit.arg.pages[1], MaxSpanSize)

\* C17 amended: the font size of a line is the largest among its spans with
\* non-blank text; extract_pdf_title returns nothing when no line of the
\* first page passes is_valid_title, and otherwise the text of the earliest
\* valid line among those of the largest such size.
C17_LargestTextSpanFont ==
  Extracted => unit.ret = ClaimedTitle(unit.arg.pages[1], MaxTextSpanSize)

C17_Witness ==
  /\ Extracted
  /\ Len(PageLines(unit.arg.pages[1])) = 3
  /\ JoinSpans(PageLines(unit.arg.pages[1])[1].spans) = GRAPH_NETWORKS
  /\ PageLines(unit.arg.pages[1])[2] = [spans |-> << Span(SPARSE_CODING, 18) >>]
  /\ PageLines(unit.arg.pages[1])[3] = [spans |-> << Span(ARXIV_HEADER, 20) >>]
  /\ unit.ret = Some(GRAPH_NETWORKS)

\* the five rejections of the claim, on the trimmed text
ArxivAt(t, i) ==
  /\ i + 4 <= Len(t)
  /\ t[i] \in {"a", "A"}
  /\ t[i + 1] \in {"r", "R"}
  /\ t[i + 2] \in {"x", "X"}
  /\ t[i + 3] \in {"i", "I"}
  /\ t[i + 4] \in {"v", "V"}

Rejected(t) ==
  \/ Len(t) < 10
  \/ ArxivAt(t, 1)
  \/ /\ \E i \in 1 .. Len(t) : \A j \in 0 .. 3 : i + j <= Len(t) /\ t[i + j] \in Digits
     /\ \E i \in 1 .. Len(t) : ArxivAt(t, i)
  \/ \E i \in 1 .. Len(t) : \E j \in 1 .. Len(t) : i < j /\ t[i] = "[" /\ t[j] = "]"
  \/ \E i \in 1 .. Len(t) : t[i] = "@"

\* C18: is_valid_title(line) is false exactly when the trimmed line is
\* shorter than 10, or begins with "arxiv" in any letter case, or holds four
\* digits in a row and "arxiv" in any letter case, or holds a bracketed
\* token, or holds "@"; otherwise it is true.
C18_IsValidTitleRules ==
  (unit.fn = "is_valid_title" /\ unit.done) =>
    unit.ret = ~Rejected(Strip(unit.arg))

C18_Witness ==
  /\ unit.fn = "is_valid_title"
  /\ unit.done
  /\ unit.ret
  /\ HasFourDigits(unit.arg)
  /\ ~Contains(Lower(unit.arg), ARXIV)

====
